---- MODULE Spec2Model ----
(***************************************************************************)
(* Tasked: the task collection of src/src/components/TaskedApp.jsx, its    *)
(* four mutating handlers, its persistence to localStorage and the derived *)
(* views (filter, sort, metrics, streak, due-date label).                  *)
(*                                                                         *)
(* Time.  Date.now() is the variable now, counted in hours since the       *)
(* epoch; the local time zone is UTC and has no daylight saving, so a day  *)
(* is DAY hours and local midnight is a multiple of DAY.  A date string    *)
(* (the ISO string of addDays, the "YYYY-MM-DD" of <input type=date>) is   *)
(* represented by the instant it parses to.                                *)
(*                                                                         *)
(* JavaScript values.  A property of a task is a record [k, n, s]: k is    *)
(* the kind ("missing" = the object has no such key, "undefined" = the key *)
(* is there and holds undefined, "null", "number", "date" = a date string, *)
(* "string"), n the number or instant, s the text.                         *)
(***************************************************************************)
EXTENDS Integers, Sequences, FiniteSets, TLC

VARIABLES
  tasks,       \* useState: the task collection, a sequence of task records
  filter,      \* useState: filter criterion
  searchTerm,  \* useState: search box text
  sortMode,    \* useState: sort mode
  store,       \* window.localStorage under STORAGE_KEY
  now,         \* Date.now(), in hours
  everIds,     \* history: every id a task of the collection has held
  setBy,       \* history: per position of tasks, what last set the status
  lastRaw,     \* history: what the latest run of the initialiser read
  lastOp,      \* history: the latest operation and its arguments
  ops,         \* history: number of operations so far
  out          \* what the latest render computed, [fn, v]

vars == <<tasks, filter, searchTerm, sortMode, store, now,
          everIds, setBy, lastRaw, lastOp, ops, out>>

view == <<filter, searchTerm, sortMode>>

----------------------------------------------------------------------------
(* Bounds of the model *)

MaxOps == 3         \* operations per behaviour
MaxTasks == 6       \* handleCreateTask is not taken beyond this size

(* Program constants *)

DAY == 24           \* 1000 * 60 * 60 * 24 ms, in hours
NOON == 12          \* setHours(12, 0, 0, 0)
STREAK_DAYS == 10   \* for (index = 0; index < 10; ...)
DUE_SOON_DAYS == 3  \* diffDays <= 3

STATUS_LABELS == <<"today", "upcoming", "backlog", "completed">>

Statuses == {STATUS_LABELS[i] : i \in 1..Len(STATUS_LABELS)}

PRIORITY_LABELS == <<"high", "medium", "low">>

Priorities == {PRIORITY_LABELS[i] : i \in 1..Len(PRIORITY_LABELS)}

----------------------------------------------------------------------------
(* JavaScript values *)

Undefined == [k |-> "undefined", n |-> 0, s |-> ""]
Missing == [k |-> "missing", n |-> 0, s |-> ""]
Null == [k |-> "null", n |-> 0, s |-> ""]
Num(n) == [k |-> "number", n |-> n, s |-> ""]
DateStr(n) == [k |-> "date", n |-> n, s |-> ""]
Str(s) == [k |-> "string", n |-> 0, s |-> s]

\* what reading the property yields: a missing key reads as undefined
Get(v) == IF v.k = "missing" THEN Undefined ELSE v

\* ToBoolean(v)
Truthy(v) ==
  CASE v.k = "number" -> v.n # 0
    [] v.k = "date" -> TRUE
    [] v.k = "string" -> v.s # ""
    [] OTHER -> FALSE

\* v ?? w
Coalesce(v, w) == IF v.k \in {"undefined", "missing", "null"} THEN w ELSE v

\* new Date(v).getTime() of a number or of a date string
GetTime(v) == v.n

NoTags == [k |-> "undefined", a |-> <<>>]
Tags(a) == [k |-> "array", a |-> a]

----------------------------------------------------------------------------
(* Dates *)

\* date.setHours(0, 0, 0, 0)
StartOfDay(t) == (t \div DAY) * DAY

addDays(base, days) == DateStr(StartOfDay(base) + days * DAY + NOON)

\* the value of <input type="date"> for the day d days after the day of base:
\* "YYYY-MM-DD", which new Date() reads as midnight UTC
DateInput(base, d) == DateStr(StartOfDay(base) + d * DAY)

\* Math.round(p / q) for q > 0: halves round toward +Infinity, and a result
\* in (-0.5, 0] is -0, which === 0
MathRound(p, q) == (2 * p + q) \div (2 * q)

Abs(n) == IF n < 0 THEN -n ELSE n

formatDueDate(input, clock) ==
  IF ~Truthy(input) THEN "No deadline"
  ELSE LET date == GetTime(input)
           today == StartOfDay(clock)
           diffDays == MathRound(date - today, DAY)
       IN CASE diffDays = 0 -> "Due today"
            [] diffDays = 1 -> "Due tomorrow"
            [] diffDays < 0 ->
                 "Overdue by " \o ToString(Abs(diffDays)) \o " day"
                   \o (IF Abs(diffDays) = 1 THEN "" ELSE "s")
            [] OTHER -> "On day " \o ToString(date \div DAY)

----------------------------------------------------------------------------
(* The seed collection.  DEFAULT_TASKS is built when the module is loaded, *)
(* from the clock reading of that moment.                                  *)

DEFAULT_TASKS(clock) == <<
  [id |-> "kickoff", title |-> "Sprint planning for Q4",
   description |-> Str("Finalize scope, align owners, and set capacity targets for the upcoming sprint."),
   dueDate |-> addDays(clock, 0), status |-> "today", priority |-> "high",
   tags |-> Tags(<<"Planning", "Team">>),
   createdAt |-> Num(clock - 12), completedAt |-> Missing],
  [id |-> "retro", title |-> "Gather retro notes",
   description |-> Str("Collect learnings and kudos from the previous iteration in Confluence."),
   dueDate |-> addDays(clock, 1), status |-> "upcoming", priority |-> "medium",
   tags |-> Tags(<<"Process">>),
   createdAt |-> Num(clock - 6), completedAt |-> Missing],
  [id |-> "ux-audit", title |-> "UX polish checklist",
   description |-> Str("Audit empty states, micro-copy, and accessibility contrast before launch."),
   dueDate |-> addDays(clock, 3), status |-> "upcoming", priority |-> "high",
   tags |-> Tags(<<"Design">>),
   createdAt |-> Num(clock - 24), completedAt |-> Missing],
  [id |-> "pipeline", title |-> "Pipeline hardening",
   description |-> Str("Add automated smoke tests and flaky test quarantine to CI."),
   dueDate |-> addDays(clock, 5), status |-> "backlog", priority |-> "medium",
   tags |-> Tags(<<"DevOps", "Automation">>),
   createdAt |-> Num(clock - 48), completedAt |-> Missing],
  [id |-> "docs", title |-> "Update api docs",
   description |-> Str("Document the new webhook endpoints and example payloads."),
   dueDate |-> addDays(clock, -1), status |-> "completed", priority |-> "low",
   tags |-> Tags(<<"Docs">>),
   createdAt |-> Num(clock - 36), completedAt |-> Num(clock - 2)] >>

----------------------------------------------------------------------------
(* Persistence.  The store is [k, v]: k = "null" (getItem returns null),   *)
(* "throws" (getItem throws), "empty" (the empty string), "malformed"      *)
(* (text that is not JSON), "nonarray" (JSON of something that is not an   *)
(* array), "array" (JSON of the array v).                                  *)

StoreOf(kind) == [k |-> kind, v |-> <<>>]

StringifyValueDropsNull(v) ==
  IF v.k \in {"undefined", "null"} THEN Missing ELSE v

\* JSON.stringify of one task: a property holding undefined is left out
StringifyValue(v) == IF v.k = "undefined" THEN Missing ELSE v

StringifyTask(t) ==
  [id |-> t.id, title |-> t.title,
   description |-> StringifyValue(t.description),
   dueDate |-> StringifyValue(t.dueDate),
   status |-> t.status, priority |-> t.priority,
   tags |-> IF t.tags.k = "undefined" THEN [k |-> "missing", a |-> <<>>]
            ELSE t.tags,
   createdAt |-> StringifyValue(t.createdAt),
   completedAt |-> StringifyValue(t.completedAt)]

JSONstringify(ts) ==
  [k |-> "array", v |-> [i \in 1..Len(ts) |-> StringifyTask(ts[i])]]

\* JSON.parse: throws on text that is not JSON
JSONparse(raw) ==
  [throws |-> raw.k = "malformed",
   isArray |-> raw.k = "array",
   v |-> raw.v]

\* the useState initialiser: [tasks, caught, escaped], caught = the catch
\* block ran, escaped = an exception left the initialiser
LoadOutcome(ts, caught) == [tasks |-> ts, caught |-> caught, escaped |-> FALSE]

LoadTasksNoArrayCheck(raw, clock) ==
  IF raw.k = "throws" THEN LoadOutcome(DEFAULT_TASKS(clock), TRUE)
  ELSE IF raw.k \in {"null", "empty"}
       THEN LoadOutcome(DEFAULT_TASKS(clock), FALSE)
  ELSE LET parsed == JSONparse(raw)
       IN IF parsed.throws THEN LoadOutcome(DEFAULT_TASKS(clock), TRUE)
          ELSE LoadOutcome(parsed.v, FALSE)

LoadTasks(raw, clock) ==
  IF raw.k = "throws" THEN LoadOutcome(DEFAULT_TASKS(clock), TRUE)
  ELSE IF raw.k \in {"null", "empty"}
       THEN LoadOutcome(DEFAULT_TASKS(clock), FALSE)
  ELSE LET parsed == JSONparse(raw)
       IN IF parsed.throws THEN LoadOutcome(DEFAULT_TASKS(clock), TRUE)
          ELSE IF ~parsed.isArray \/ Len(parsed.v) = 0
               THEN LoadOutcome(DEFAULT_TASKS(clock), FALSE)
          ELSE LoadOutcome(parsed.v, FALSE)

\* the useEffect on [tasks]: setItem(STORAGE_KEY, JSON.stringify(tasks)); a
\* storage that cannot be read cannot be written either
Persist(ts, current) == IF current.k = "throws" THEN current ELSE JSONstringify(ts)

----------------------------------------------------------------------------
(* Strings *)

RECURSIVE TrimStart(_)
TrimStart(s) ==
  IF Len(s) > 0 /\ SubSeq(s, 1, 1) = " " THEN TrimStart(SubSeq(s, 2, Len(s)))
  ELSE s

RECURSIVE TrimEnd(_)
TrimEnd(s) ==
  IF Len(s) > 0 /\ SubSeq(s, Len(s), Len(s)) = " "
  THEN TrimEnd(SubSeq(s, 1, Len(s) - 1))
  ELSE s

Trim(s) == TrimEnd(TrimStart(s))

LowerChar(c) ==
  CASE c = "A" -> "a" [] c = "B" -> "b" [] c = "C" -> "c" [] c = "D" -> "d"
    [] c = "E" -> "e" [] c = "F" -> "f" [] c = "G" -> "g" [] c = "H" -> "h"
    [] c = "I" -> "i" [] c = "J" -> "j" [] c = "K" -> "k" [] c = "L" -> "l"
    [] c = "M" -> "m" [] c = "N" -> "n" [] c = "O" -> "o" [] c = "P" -> "p"
    [] c = "Q" -> "q" [] c = "R" -> "r" [] c = "S" -> "s" [] c = "T" -> "t"
    [] c = "U" -> "u" [] c = "V" -> "v" [] c = "W" -> "w" [] c = "X" -> "x"
    [] c = "Y" -> "y" [] c = "Z" -> "z" [] OTHER -> c

\* by halves, one character at a time
RECURSIVE toLowerCase(_)
toLowerCase(s) ==
  IF Len(s) = 0 THEN ""
  ELSE IF Len(s) = 1 THEN LowerChar(s)
  ELSE LET half == Len(s) \div 2
       IN toLowerCase(SubSeq(s, 1, half))
            \o toLowerCase(SubSeq(s, half + 1, Len(s)))

\* haystack.includes(needle)
Includes(haystack, needle) ==
  \E i \in 1..(Len(haystack) - Len(needle) + 1) :
    SubSeq(haystack, i, i + Len(needle) - 1) = needle

RECURSIVE Join(_, _)
Join(a, sep) ==
  IF Len(a) = 0 THEN ""
  ELSE IF Len(a) = 1 THEN a[1]
  ELSE a[1] \o sep \o Join(Tail(a), sep)

----------------------------------------------------------------------------
(* The views *)

\* `${task.title} ${task.description ?? ""} ${task.tags?.join(" ") ?? ""}`
HaystackCaseKept(task) ==
  task.title \o " " \o Coalesce(task.description, Str("")).s \o " "
    \o (IF task.tags.k = "array" THEN Join(task.tags.a, " ") ELSE "")

Haystack(task) ==
  toLowerCase(
    task.title \o " " \o Coalesce(task.description, Str("")).s \o " "
      \o (IF task.tags.k = "array" THEN Join(task.tags.a, " ") ELSE ""))

\* the callback of tasks.filter(...) in filteredTasks
PassesFilter(task, criterion, normalizedSearch) ==
  IF /\ criterion # "all" /\ task.status # criterion
     /\ (IF criterion = "high" /\ task.priority # "high" THEN TRUE
         ELSE criterion # "high")
  THEN FALSE
  ELSE IF normalizedSearch # "" /\ ~Includes(Haystack(task), normalizedSearch)
  THEN FALSE
  ELSE TRUE

filteredTasks(ts, criterion, term) ==
  LET normalizedSearch == toLowerCase(Trim(term))
      passes(task) == PassesFilter(task, criterion, normalizedSearch)
  IN SelectSeq(ts, passes)

\* a number or NaN, by its sign
Signed(n) == [nan |-> FALSE, sign |-> IF n < 0 THEN -1 ELSE IF n > 0 THEN 1 ELSE 0]
NaN == [nan |-> TRUE, sign |-> 0]

\* weights[priority]
Weight(priority) ==
  CASE priority = "high" -> 3 [] priority = "medium" -> 2 [] priority = "low" -> 1

\* a.dueDate ? new Date(a.dueDate).getTime() : Infinity
DueTimeOrZero(task) ==
  IF Truthy(task.dueDate) THEN [inf |-> FALSE, n |-> GetTime(task.dueDate)]
  ELSE [inf |-> FALSE, n |-> 0]

DueTime(task) ==
  IF Truthy(task.dueDate) THEN [inf |-> FALSE, n |-> GetTime(task.dueDate)]
  ELSE [inf |-> TRUE, n |-> 0]

\* the comparator handed to sort
Compare(a, b, mode) ==
  IF mode = "priority" THEN Signed(Weight(b.priority) - Weight(a.priority))
  ELSE IF mode = "dueDate"
  THEN LET aTime == DueTime(a)
           bTime == DueTime(b)
       IN IF aTime.inf /\ bTime.inf THEN NaN
          ELSE IF aTime.inf THEN Signed(1)
          ELSE IF bTime.inf THEN Signed(-1)
          ELSE Signed(aTime.n - bTime.n)
  ELSE Signed(Coalesce(b.createdAt, Num(0)).n - Coalesce(a.createdAt, Num(0)).n)

\* Array.prototype.sort: stable; a NaN from the comparator counts as 0.  Each
\* element goes before the first element it compares less than.
RECURSIVE InsertSortedBeforeEqual(_, _, _)
InsertSortedBeforeEqual(sorted, task, mode) ==
  IF Len(sorted) = 0 THEN <<task>>
  ELSE LET order == Compare(task, Head(sorted), mode)
       IN IF order.nan \/ order.sign <= 0 THEN <<task>> \o sorted
          ELSE <<Head(sorted)>> \o InsertSortedBeforeEqual(Tail(sorted), task, mode)

RECURSIVE InsertSorted(_, _, _)
InsertSorted(sorted, task, mode) ==
  IF Len(sorted) = 0 THEN <<task>>
  ELSE LET order == Compare(task, Head(sorted), mode)
       IN IF ~order.nan /\ order.sign < 0 THEN <<task>> \o sorted
          ELSE <<Head(sorted)>> \o InsertSorted(Tail(sorted), task, mode)

RECURSIVE SortFrom(_, _, _, _)
SortFrom(ts, mode, i, sorted) ==
  IF i > Len(ts) THEN sorted
  ELSE SortFrom(ts, mode, i + 1, InsertSorted(sorted, ts[i], mode))

prioritizeTasks(ts, mode) == SortFrom(ts, mode, 1, <<>>)

\* the array passed in, after the call: [...tasks] copies it and sort works
\* on the copy
ArgumentAfterSort(ts, mode) == ts

GroupStepReplaces(acc, task) ==
  LET withKey == IF task.status \in DOMAIN acc THEN acc
                 ELSE acc @@ (task.status :> <<>>)
  IN [withKey EXCEPT ![task.status] = <<task>>]

\* the reducer of groupedTasks: a bucket is made when its status first
\* shows up, and the task is pushed onto the bucket of its status
GroupStep(acc, task) ==
  LET withKey == IF task.status \in DOMAIN acc THEN acc
                 ELSE acc @@ (task.status :> <<>>)
  IN [withKey EXCEPT ![task.status] = Append(@, task)]

\* sorted.reduce(..., {}) from element i on
RECURSIVE Reduce(_, _, _)
Reduce(sorted, i, acc) ==
  IF i > Len(sorted) THEN acc
  ELSE Reduce(sorted, i + 1, GroupStep(acc, sorted[i]))

groupedTasks(filtered, mode) == Reduce(prioritizeTasks(filtered, mode), 1, <<>>)

----------------------------------------------------------------------------
(* Metrics *)

IsCompleted(task) == task.status = "completed"

IsActive(task) == task.status # "completed"

\* the callback of active.filter(...) in calculateMetrics
IsDueSoon(task, clock) ==
  IF ~Truthy(task.dueDate) THEN FALSE
  ELSE LET diff == GetTime(task.dueDate) - clock
       IN diff >= 0 /\ diff <= DUE_SOON_DAYS * DAY

dueSoonOfAll(ts, clock) ==
  LET soon(task) == IsDueSoon(task, clock)
  IN Len(SelectSeq(ts, soon))

dueSoon(ts, clock) ==
  LET soon(task) == IsDueSoon(task, clock)
  IN Len(SelectSeq(SelectSeq(ts, IsActive), soon))

\* the day a completed task counts for, as the instant of its local midnight
\* (the program compares the ISO strings of these instants)
StreakDay(task) ==
  LET date == IF Truthy(task.completedAt) THEN GetTime(task.completedAt)
              ELSE GetTime(Coalesce(task.dueDate, task.createdAt))
  IN StartOfDay(date)

\* the for loop of calculateStreak, from index on
RECURSIVE StreakLoopNoBreak(_, _, _, _)
StreakLoopNoBreak(days, today, index, streak) ==
  IF index < STREAK_DAYS
  THEN StreakLoopNoBreak(days, today, index + 1,
                         IF (today - index * DAY) \in days THEN streak + 1
                         ELSE streak)
  ELSE streak

RECURSIVE StreakLoop(_, _, _, _)
StreakLoop(days, today, index, streak) ==
  IF index < STREAK_DAYS
  THEN LET cursor == today - index * DAY
       IN IF cursor \in days
          THEN StreakLoop(days, today, index + 1, streak + 1)
          ELSE streak
  ELSE streak

calculateStreak(completedTasks, clock) ==
  IF Len(completedTasks) = 0 THEN 0
  ELSE LET days == {StreakDay(completedTasks[i]) : i \in 1..Len(completedTasks)}
           today == StartOfDay(clock)
       IN StreakLoop(days, today, 0, 0)

TotalOfLength(ts) == Len(ts)

\* tasks.length || 1
Total(ts) == IF Len(ts) = 0 THEN 1 ELSE Len(ts)

\* A quotient of two counts is kept as the pair it is computed from; for the
\* collection sizes of the model the double and the exact quotient compare
\* alike with 0.8 and 0.5 and round alike after the multiplication by 100.
Ratio(num, den) == [num |-> num, den |-> den]

completionRateOfActive(ts) == Ratio(Len(SelectSeq(ts, IsActive)), Total(ts))

\* completed.length / total
completionRate(ts) == Ratio(Len(SelectSeq(ts, IsCompleted)), Total(ts))

\* ratio >= p / q, for p / q one of 0.8 = 4 / 5 and 0.5 = 1 / 2
AtLeast(ratio, p, q) ==
  IF ratio.den = 0 THEN FALSE ELSE q * ratio.num >= p * ratio.den

highPriority(ts) ==
  LET high(task) == task.priority = "high"
  IN Len(SelectSeq(SelectSeq(ts, IsActive), high))

PercentageOfFraction(count, total) ==
  IF total = 0 THEN 0 ELSE MathRound(count, total)

\* total === 0 ? 0 : Math.round((count / total) * 100)
Percentage(count, total) ==
  IF total = 0 THEN 0 ELSE MathRound(100 * count, total)

\* Object.keys(STATUS_LABELS).map(...)
byStatus(ts) ==
  [i \in 1..Len(STATUS_LABELS) |->
     LET has(task) == task.status = STATUS_LABELS[i]
         count == Len(SelectSeq(ts, has))
     IN [status |-> STATUS_LABELS[i],
         count |-> count,
         percentage |-> Percentage(count, Total(ts))]]

MathMax(a, b) == IF a >= b THEN a ELSE b

\* Math.ceil(activeCount * 0.4): the double product rounds up to the same
\* integer as the exact 2 * activeCount / 5 for every count below 2000
CeilFourTenths(activeCount) == (2 * activeCount + 4) \div 5

\* the titles and bodies of the source, with its typographic apostrophes and
\* dashes written in ASCII
FocusArea(title, body) == [title |-> title, body |-> body]

determineFocusAreaLoadFirst(rate, activeCount, soon) ==
  IF AtLeast(rate, 4, 5)
  THEN FocusArea("Celebrate & optimize", "Completion is above 80%.")
  ELSE IF activeCount >= 6
  THEN FocusArea("Streamline the workload", "There's a lot in play.")
  ELSE IF soon >= MathMax(2, CeilFourTenths(activeCount))
  THEN FocusArea("Tackle upcoming deadlines",
                 "Several tasks land within the next three days.")
  ELSE FocusArea("Build the habit", "Light load today.")

determineFocusArea(rate, activeCount, soon) ==
  IF AtLeast(rate, 4, 5)
  THEN FocusArea("Celebrate & optimize",
                 "Completion is above 80%. Look for light refactors, share updates, and tee up tomorrow's wins.")
  ELSE IF soon >= MathMax(2, CeilFourTenths(activeCount))
  THEN FocusArea("Tackle upcoming deadlines",
                 "Several tasks land within the next three days. Block focus time or reassign where needed.")
  ELSE IF activeCount >= 6
  THEN FocusArea("Streamline the workload",
                 "There's a lot in play. Prioritize the top three outcomes and nudge the rest to backlog or delegate.")
  ELSE FocusArea("Build the habit",
                 "Light load today. Claim a quick win and set stretch goals for the week.")

momentumComment(rate) ==
  IF AtLeast(rate, 4, 5) THEN "Momentum high - keep stacking wins!"
  ELSE IF AtLeast(rate, 1, 2) THEN "Solid pace. What's the next domino?"
  ELSE "Plot your next move and reclaim the day."

calculateMetrics(ts, clock) ==
  LET completed == SelectSeq(ts, IsCompleted)
      active == SelectSeq(ts, IsActive)
  IN [completionRate |-> completionRate(ts),
      highPriority |-> highPriority(ts),
      dueSoon |-> dueSoon(ts, clock),
      activeCount |-> Len(active),
      streak |-> calculateStreak(completed, clock),
      momentumComment |-> momentumComment(completionRate(ts)),
      byStatus |-> byStatus(ts),
      focusArea |-> determineFocusArea(completionRate(ts), Len(active),
                                       dueSoon(ts, clock))]

----------------------------------------------------------------------------
(* Inputs *)

StartNow == 10 * DAY + 10

\* Math.random().toString(36).slice(2, 6)
Rands == {"k3x9", "p0q2"}

\* what QuickAdd submits: the text inputs as typed, the two selects, and the
\* date input or null
Payloads(clock) == {
  [title |-> "Write report", description |-> "", priority |-> "medium",
   status |-> "today", dueDate |-> Null],
  [title |-> "  Fix Login bug ", description |-> " see Q4 notes ",
   priority |-> "high", status |-> "upcoming", dueDate |-> DateInput(clock, 0)],
  [title |-> "Archive", description |-> "  ", priority |-> "low",
   status |-> "completed", dueDate |-> DateInput(clock, 1)],
  [title |-> "   ", description |-> "", priority |-> "medium",
   status |-> "today", dueDate |-> Null] }

\* a collection an earlier session left in the store
StoredTask(clock) ==
  [id |-> ToString(clock - DAY) \o "-k3x9", title |-> "Call Bob",
   description |-> Missing, dueDate |-> Null, status |-> "backlog",
   priority |-> "medium", tags |-> [k |-> "missing", a |-> <<>>],
   createdAt |-> Num(clock - DAY), completedAt |-> Missing]

InitialStores(clock) ==
  { StoreOf("null"), [k |-> "array", v |-> <<StoredTask(clock)>>] }

\* what something other than this page can leave in the storage
ForeignStores == { StoreOf("null"), StoreOf("throws"), StoreOf("empty"),
                   StoreOf("malformed"), StoreOf("nonarray"), StoreOf("array") }

Ids(ts) == {ts[i].id : i \in 1..Len(ts)}

\* the ids the handlers are called with: those on the board and a stale one
CallIds == Ids(tasks) \cup {"gone"}

NoOutput == [fn |-> "none", v |-> <<>>]

Op(name, id, arg) == [op |-> name, id |-> id, arg |-> arg]

----------------------------------------------------------------------------
(* The handlers *)

newTask(payload, id, clock) ==
  [id |-> id,
   title |-> Trim(payload.title),
   description |-> IF Trim(payload.description) # ""
                   THEN Str(Trim(payload.description)) ELSE Undefined,
   dueDate |-> IF Truthy(payload.dueDate) THEN payload.dueDate ELSE Null,
   status |-> payload.status,
   priority |-> payload.priority,
   tags |-> NoTags,
   createdAt |-> Num(clock),
   completedAt |-> Missing]

newId(clock, rand) == ToString(clock) \o "-" \o rand

createTask(current, payload, id, clock) ==
  <<newTask(payload, id, clock)>> \o current

toggleTaskKeepsStamp(task, clock) ==
  LET isDone == task.status = "completed"
  IN [task EXCEPT !.status = IF isDone THEN "today" ELSE "completed",
                  !.completedAt = IF isDone THEN @ ELSE Num(clock)]

toggleTaskBackToBacklog(task, clock) ==
  LET isDone == task.status = "completed"
  IN [task EXCEPT !.status = IF isDone THEN "backlog" ELSE "completed",
                  !.completedAt = IF isDone THEN Undefined ELSE Num(clock)]

toggleTask(task, clock) ==
  LET isDone == task.status = "completed"
  IN [task EXCEPT !.status = IF isDone THEN "today" ELSE "completed",
                  !.completedAt = IF isDone THEN Undefined ELSE Num(clock)]

toggleComplete(current, taskId, clock) ==
  [i \in 1..Len(current) |->
     IF current[i].id # taskId THEN current[i]
     ELSE toggleTask(current[i], clock)]

moveTaskDropsCreatedAt(task, nextStatus) ==
  [task EXCEPT !.status = nextStatus, !.createdAt = Missing]

moveTask(task, nextStatus) == [task EXCEPT !.status = nextStatus]

statusChange(current, taskId, nextStatus) ==
  [i \in 1..Len(current) |->
     IF current[i].id = taskId THEN moveTask(current[i], nextStatus)
     ELSE current[i]]

KeepCompleted(taskId, task) ==
  task.id # taskId \/ task.status = "completed"

Keep(taskId, task) == task.id # taskId

deleteTask(current, taskId) ==
  LET keep(task) == Keep(taskId, task) IN SelectSeq(current, keep)

\* positions of current that deleteTask keeps, in order
RECURSIVE KeptFrom(_, _, _)
KeptFrom(current, taskId, i) ==
  IF i > Len(current) THEN <<>>
  ELSE (IF Keep(taskId, current[i]) THEN <<i>> ELSE <<>>)
         \o KeptFrom(current, taskId, i + 1)

handleCreateTask(payload, rand) ==
  /\ ops < MaxOps
  /\ Len(tasks) < MaxTasks
  /\ Trim(payload.title) # ""
  /\ LET id == newId(now, rand)
     IN /\ tasks' = createTask(tasks, payload, id, now)
        /\ everIds' = everIds \cup {id}
        /\ lastOp' = Op("create", id, payload.status)
  /\ setBy' = <<"create">> \o setBy
  /\ store' = Persist(tasks', store)
  /\ ops' = ops + 1
  /\ UNCHANGED <<view, now, lastRaw, out>>

handleToggleComplete(taskId) ==
  /\ ops < MaxOps
  /\ tasks' = toggleComplete(tasks, taskId, now)
  /\ setBy' = [i \in 1..Len(tasks) |->
                 IF tasks[i].id = taskId THEN "toggle" ELSE setBy[i]]
  /\ lastOp' = Op("toggle", taskId, "")
  /\ store' = Persist(tasks', store)
  /\ ops' = ops + 1
  /\ UNCHANGED <<view, now, lastRaw, everIds, out>>

handleStatusChange(taskId, nextStatus) ==
  /\ ops < MaxOps
  /\ tasks' = statusChange(tasks, taskId, nextStatus)
  /\ setBy' = [i \in 1..Len(tasks) |->
                 IF tasks[i].id = taskId THEN "move" ELSE setBy[i]]
  /\ lastOp' = Op("move", taskId, nextStatus)
  /\ store' = Persist(tasks', store)
  /\ ops' = ops + 1
  /\ UNCHANGED <<view, now, lastRaw, everIds, out>>

handleDeleteTask(taskId) ==
  /\ ops < MaxOps
  /\ tasks' = deleteTask(tasks, taskId)
  /\ setBy' = LET kept == KeptFrom(tasks, taskId, 1)
              IN [i \in 1..Len(kept) |-> setBy[kept[i]]]
  /\ lastOp' = Op("delete", taskId, "")
  /\ store' = Persist(tasks', store)
  /\ ops' = ops + 1
  /\ UNCHANGED <<view, now, lastRaw, everIds, out>>

\* time passes: an hour or a day
Tick(step) ==
  /\ ops < MaxOps
  /\ now' = now + step
  /\ lastOp' = Op("tick", "", "")
  /\ ops' = ops + 1
  /\ UNCHANGED <<tasks, view, store, everIds, setBy, lastRaw, out>>

\* something else writes, clears or blocks the storage
StorageChange(raw) ==
  /\ ops < MaxOps
  /\ raw # store
  /\ store' = raw
  /\ lastOp' = Op("storage", "", raw.k)
  /\ ops' = ops + 1
  /\ UNCHANGED <<tasks, view, now, everIds, setBy, lastRaw, out>>

LoadResult(loaded) ==
  IF loaded.escaped THEN "escaped"
  ELSE IF loaded.caught THEN "caught" ELSE "clean"

\* the page is loaded again: the module is evaluated, the component mounts
\* with its initial state and the effect runs
Mount(raw, clock) ==
  LET loaded == LoadTasks(raw, clock)
  IN /\ tasks' = loaded.tasks
     /\ filter' = "all"
     /\ searchTerm' = ""
     /\ sortMode' = "priority"
     /\ store' = Persist(loaded.tasks, raw)
     /\ lastRaw' = raw
     /\ setBy' = [i \in 1..Len(loaded.tasks) |-> "load"]
     /\ lastOp' = Op("load", "", LoadResult(loaded))

Reload ==
  /\ ops < MaxOps
  /\ Mount(store, now)
  /\ everIds' = everIds \cup Ids(tasks')
  /\ ops' = ops + 1
  /\ UNCHANGED <<now, out>>

Init ==
  /\ now = StartNow
  /\ \E raw \in InitialStores(StartNow) :
       LET loaded == LoadTasks(raw, StartNow)
       IN /\ tasks = loaded.tasks
          /\ store = Persist(loaded.tasks, raw)
          /\ lastRaw = raw
          /\ setBy = [i \in 1..Len(loaded.tasks) |-> "load"]
          /\ everIds = Ids(loaded.tasks)
          /\ lastOp = Op("load", "", LoadResult(loaded))
  /\ filter = "all"
  /\ searchTerm = ""
  /\ sortMode = "priority"
  /\ ops = 0
  /\ out = NoOutput

Next ==
  \/ \E payload \in Payloads(now), rand \in Rands : handleCreateTask(payload, rand)
  \/ \E taskId \in CallIds : handleToggleComplete(taskId)
  \/ \E taskId \in CallIds, nextStatus \in Statuses :
       handleStatusChange(taskId, nextStatus)
  \/ \E taskId \in CallIds : handleDeleteTask(taskId)
  \/ \E step \in {1, DAY} : Tick(step)
  \/ \E raw \in ForeignStores : StorageChange(raw)
  \/ Reload

Spec == Init /\ [][Next]_vars

----------------------------------------------------------------------------
(* Properties of the handlers *)

Present(v) == Get(v).k # "undefined"

SameSize == Len(tasks') = Len(tasks)

\* C1: whenever toggle or move takes a task from a non-completed status to
\* completed, completedAt is present afterwards, and whenever it takes a task
\* from completed to a non-completed status, completedAt is absent afterwards.
C1_StampFollowsStatus ==
  [][lastOp'.op \in {"toggle", "move"} =>
       /\ SameSize
       /\ \A i \in 1..Len(tasks) :
            /\ (~IsCompleted(tasks[i]) /\ IsCompleted(tasks'[i]))
                 => Present(tasks'[i].completedAt)
            /\ (IsCompleted(tasks[i]) /\ ~IsCompleted(tasks'[i]))
                 => ~Present(tasks'[i].completedAt)]_vars

C3_IdsUniqueNeverReused ==
  /\ [](\A i, j \in 1..Len(tasks) : i # j => tasks[i].id # tasks[j].id)
  /\ [][lastOp'.op = "create" => lastOp'.id \notin everIds]_vars

\* C4: an active task whose dueDate falls on today's calendar date is
\* counted by the dueSoon filter, whatever the time of day of now and of the
\* dueDate.
C4_DueTodayIsDueSoon ==
  \A i \in 1..Len(tasks) :
    (/\ IsActive(tasks[i])
     /\ Truthy(tasks[i].dueDate)
     /\ StartOfDay(GetTime(tasks[i].dueDate)) = StartOfDay(now))
      => IsDueSoon(tasks[i], now)

\* C5: a task whose dueDate falls on yesterday's calendar date is not counted
\* by the dueSoon filter and its label starts with "Overdue by ", whatever
\* the time of day of the dueDate.
C5_YesterdayIsOverdue ==
  \A i \in 1..Len(tasks) :
    (/\ Truthy(tasks[i].dueDate)
     /\ StartOfDay(GetTime(tasks[i].dueDate)) = StartOfDay(now) - DAY)
      => /\ ~IsDueSoon(tasks[i], now)
         /\ LET label == formatDueDate(tasks[i].dueDate, now)
            IN /\ label \notin {"Due today", "Due tomorrow"}
               /\ Len(label) >= Len("Overdue by ")
               /\ SubSeq(label, 1, Len("Overdue by ")) = "Overdue by "

----------------------------------------------------------------------------
(* Properties of the persistence *)

\* the same records with the same readable fields in the same order
SameTask(a, b) ==
  /\ a.id = b.id /\ a.title = b.title
  /\ a.status = b.status /\ a.priority = b.priority
  /\ Get(a.description) = Get(b.description)
  /\ Get(a.dueDate) = Get(b.dueDate)
  /\ Get(a.createdAt) = Get(b.createdAt)
  /\ Get(a.completedAt) = Get(b.completedAt)
  /\ (IF a.tags.k = "array" THEN a.tags.a ELSE <<>>)
       = (IF b.tags.k = "array" THEN b.tags.a ELSE <<>>)
  /\ (a.tags.k = "array") <=> (b.tags.k = "array")

SameCollection(a, b) ==
  /\ Len(a) = Len(b)
  /\ \A i \in 1..Len(a) : SameTask(a[i], b[i])

\* the reload reads what the persistence effect wrote for the collection
ReloadOfPersisted ==
  /\ lastOp'.op = "load"
  /\ store = JSONstringify(tasks)

\* C7 as stated: reloading after the persistence effect gives the collection
\* back, record for record and in order.
C7_ReloadRestores ==
  [][ReloadOfPersisted => SameCollection(tasks', tasks)]_vars

\* C7 amended: reloading after the persistence effect gives a non-empty
\* collection back, record for record and in order (a property that held
\* undefined reads as undefined again); an empty collection comes back as
\* the seed collection.
C7_ReloadRestoresNonEmpty ==
  [][ReloadOfPersisted =>
       IF tasks # <<>> THEN SameCollection(tasks', tasks)
       ELSE tasks' = DEFAULT_TASKS(now')]_vars

C7_Witness ==
  /\ lastOp.op = "load"
  /\ ops >= 2
  /\ lastRaw.k = "array"
  /\ \E i \in 1..Len(tasks) :
       /\ setBy[i] = "load"
       /\ tasks[i].id \in {newId(StartNow, rand) : rand \in Rands}
       /\ tasks[i].description.k = "missing"

JustLoaded == lastOp.op = "load"

----------------------------------------------------------------------------
(* The streak, over collections that earlier days left behind *)

MaxBack == 11       \* completions reach back this many days

\* a task completed d days before the day of clock; which property carries
\* that day depends on how it was completed
DoneTask(clock, d, kind) ==
  LET at == StartOfDay(clock) - d * DAY + ((5 * d + 3) % DAY)
      how == IF kind = "mixed"
             THEN <<"completedAt", "dueDate", "createdAt">>[(d % 3) + 1]
             ELSE kind
  IN [id |-> "done-" \o ToString(d), title |-> "Done",
      description |-> Missing, status |-> "completed", priority |-> "medium",
      tags |-> [k |-> "missing", a |-> <<>>],
      completedAt |-> CASE how = "completedAt" -> Num(at)
                        [] how = "dueDate" -> Undefined
                        [] OTHER -> Missing,
      dueDate |-> CASE how = "completedAt" -> addDays(clock, 1)
                    [] how = "dueDate" -> DateStr(at)
                    [] OTHER -> Null,
      createdAt |-> CASE how = "createdAt" -> Num(at)
                      [] how = "completedAt" -> Num(at - 2 * DAY)
                      [] OTHER -> Num(StartOfDay(clock) - 2 * MaxBack * DAY)]

\* a task toggled done today and then moved back to "today": still active
ReopenedTask(clock) ==
  [id |-> "reopened", title |-> "Reopened", description |-> Missing,
   status |-> "today", priority |-> "high",
   tags |-> [k |-> "missing", a |-> <<>>],
   completedAt |-> Num(clock), dueDate |-> addDays(clock, 0),
   createdAt |-> Num(clock)]

RECURSIVE DoneTasks(_, _, _, _)
DoneTasks(clock, backs, kind, d) ==
  IF d > MaxBack THEN <<>>
  ELSE (IF d \in backs THEN <<DoneTask(clock, d, kind)>> ELSE <<>>)
         \o DoneTasks(clock, backs, kind, d + 1)

StreakClocks ==
  {StartOfDay(StartNow), StartNow, StartOfDay(StartNow) + DAY - 1}

StreakKinds == {"completedAt", "dueDate", "createdAt", "mixed"}

InitStreak ==
  /\ now \in StreakClocks
  /\ \E backs \in SUBSET (0..MaxBack), kind \in StreakKinds :
       tasks = <<ReopenedTask(now)>> \o DoneTasks(now, backs, kind, 0)
  /\ store = JSONstringify(tasks)
  /\ lastRaw = store
  /\ setBy = [i \in 1..Len(tasks) |-> "load"]
  /\ everIds = Ids(tasks)
  /\ lastOp = Op("load", "", "clean")
  /\ filter = "all"
  /\ searchTerm = ""
  /\ sortMode = "priority"
  /\ ops = 0
  /\ out = NoOutput

\* the render evaluates useMemo(() => calculateMetrics(tasks), [tasks])
RenderMetrics ==
  /\ out.fn = "none"
  /\ out' = [fn |-> "calculateMetrics", v |-> calculateMetrics(tasks, now)]
  /\ lastOp' = Op("render", "", "")
  /\ UNCHANGED <<tasks, view, store, now, everIds, setBy, lastRaw, ops>>

NextStreak == RenderMetrics

SpecStreak == InitStreak /\ [][NextStreak]_vars

\* the day the claim assigns to a completed task
ClaimDay(task) ==
  StartOfDay(IF Present(task.completedAt) THEN task.completedAt.n
             ELSE IF task.dueDate.k = "date" THEN task.dueDate.n
             ELSE task.createdAt.n)

\* some completed task counts for the day j days before today
HasDay(j) ==
  \E i \in 1..Len(tasks) :
    IsCompleted(tasks[i]) /\ ClaimDay(tasks[i]) = StartOfDay(now) - j * DAY

\* C6: streak is the number of consecutive days, counted back from today,
\* that hold the day of a completed task, stopping at the first day without
\* one and at 10; it is 0 without completed tasks and 3 when exactly today,
\* yesterday and the day before are held and the fourth day back is not.
C6_StreakCountsBackFromToday ==
  out.fn = "calculateMetrics" =>
    /\ out.v.streak
         = Cardinality({k \in 1..10 : \A j \in 0..(k - 1) : HasDay(j)})
    /\ out.v.streak \in 0..10
    /\ (\A i \in 1..Len(tasks) : ~IsCompleted(tasks[i])) => out.v.streak = 0
    /\ (HasDay(0) /\ HasDay(1) /\ HasDay(2) /\ ~HasDay(3)) => out.v.streak = 3

C6_Witness ==
  /\ out.fn = "calculateMetrics"
  /\ out.v.streak = 10
  /\ HasDay(10)
  /\ ~HasDay(11)

----------------------------------------------------------------------------
(* The board's view parameters, over a few collections *)

ViewCollections ==
  {DEFAULT_TASKS(StartNow), <<StoredTask(StartNow)>>}
    \cup {createTask(DEFAULT_TASKS(StartNow), payload,
                     newId(StartNow, "k3x9"), StartNow) :
            payload \in {p \in Payloads(StartNow) : Trim(p.title) # ""}}

\* the filter pills, and "backlog", which is a status without a pill
Filters == {"all", "today", "upcoming", "backlog", "completed", "high"}

SearchTerms == {"", "  Q4 ", "team", "PLANNING TEAM", "q4 finalize",
                "Bug see", "xyz"}

SortModes == {"priority", "dueDate", "createdAt"}

useMemoAlwaysFresh(cached, sameDeps, fresh) == fresh

\* useMemo(() => fresh, deps): the cached value while the dependencies are
\* the ones of the previous render
useMemo(cached, sameDeps, fresh) == IF sameDeps THEN cached ELSE fresh

\* slice(0, n)
Slice(seq, n) == SubSeq(seq, 1, IF Len(seq) < n THEN Len(seq) ELSE n)

focusTasks(ts) == Slice(prioritizeTasks(SelectSeq(ts, IsActive), "dueDate"), 3)

completedRecently(ts) ==
  Slice(prioritizeTasks(SelectSeq(ts, IsCompleted), "createdAt"), 4)

\* the values the memos of a render depend on
Deps(ts, criterion, term, mode) ==
  [tasks |-> ts, filter |-> criterion, searchTerm |-> term, sortMode |-> mode]

\* what a render derives from the collection, the view parameters and the
\* clock; prev and was are the output and the dependencies of the render
\* before (prev is NoOutput at the first render)
Render(prev, was, ts, criterion, term, mode, clock) ==
  LET mounted == prev.fn = "render"
      sameTasks == mounted /\ was.tasks = ts
      sameFiltered == /\ sameTasks
                      /\ was.filter = criterion
                      /\ was.searchTerm = term
      sameGrouped == sameFiltered /\ was.sortMode = mode
      filtered == useMemo(prev.v.filteredTasks, sameFiltered,
                          filteredTasks(ts, criterion, term))
  IN [fn |-> "render",
      v |-> [metrics |-> useMemo(prev.v.metrics, sameTasks,
                                 calculateMetrics(ts, clock)),
             filteredTasks |-> filtered,
             sorted |-> useMemo(prev.v.sorted, sameGrouped,
                                prioritizeTasks(filtered, mode)),
             groupedTasks |-> useMemo(prev.v.groupedTasks, sameGrouped,
                                      groupedTasks(filtered, mode)),
             focusTasks |-> useMemo(prev.v.focusTasks, sameTasks,
                                    focusTasks(ts)),
             completedRecently |-> useMemo(prev.v.completedRecently,
                                           sameTasks,
                                           completedRecently(ts))]]

InitView ==
  /\ now = StartNow
  /\ tasks \in ViewCollections
  /\ store = JSONstringify(tasks)
  /\ lastRaw = store
  /\ setBy = [i \in 1..Len(tasks) |-> "load"]
  /\ everIds = Ids(tasks)
  /\ lastOp = Op("load", "", "clean")
  /\ filter = "all"
  /\ searchTerm = ""
  /\ sortMode = "priority"
  /\ ops = 0
  /\ out = Render(NoOutput, Deps(tasks, filter, searchTerm, sortMode),
                  tasks, filter, searchTerm, sortMode, now)

setFilter(value) ==
  /\ filter' = value
  /\ out' = Render(out, Deps(tasks, filter, searchTerm, sortMode),
                   tasks, value, searchTerm, sortMode, now)
  /\ lastOp' = Op("setFilter", "", value)
  /\ UNCHANGED <<tasks, searchTerm, sortMode, store, now, everIds, setBy,
                 lastRaw, ops>>

setSearchTerm(value) ==
  /\ searchTerm' = value
  /\ out' = Render(out, Deps(tasks, filter, searchTerm, sortMode),
                   tasks, filter, value, sortMode, now)
  /\ lastOp' = Op("setSearchTerm", "", value)
  /\ UNCHANGED <<tasks, filter, sortMode, store, now, everIds, setBy,
                 lastRaw, ops>>

setSortMode(value) ==
  /\ sortMode' = value
  /\ out' = Render(out, Deps(tasks, filter, searchTerm, sortMode),
                   tasks, filter, searchTerm, value, now)
  /\ lastOp' = Op("setSortMode", "", value)
  /\ UNCHANGED <<tasks, filter, searchTerm, store, now, everIds, setBy,
                 lastRaw, ops>>

NextView ==
  \/ \E value \in Filters : setFilter(value)
  \/ \E value \in SearchTerms : setSearchTerm(value)
  \/ \E value \in SortModes : setSortMode(value)

SpecView == InitView /\ [][NextView]_vars

\* the text the claim searches: title, description and tags, lower-cased
ClaimHaystack(task) ==
  toLowerCase(task.title) \o " "
    \o (IF task.description.k = "string" THEN toLowerCase(task.description.s)
        ELSE "")
    \o " "
    \o (IF task.tags.k = "array" THEN toLowerCase(Join(task.tags.a, " "))
        ELSE "")

ClaimPasses(task) ==
  /\ \/ filter = "all"
     \/ filter = "high" /\ task.priority = "high"
     \/ filter \in Statuses /\ task.status = filter
  /\ \/ toLowerCase(Trim(searchTerm)) = ""
     \/ Includes(ClaimHaystack(task), toLowerCase(Trim(searchTerm)))

\* C9: the filtered view is the sub-sequence, in collection order, of the
\* tasks that match the criterion ("all", "high" with priority high, or a
\* status equal to the task's) and whose text contains the trimmed,
\* lower-cased search term when there is one.
C9_FilteredIsMatchingSubsequence ==
  out.fn = "render" => out.v.filteredTasks = SelectSeq(tasks, ClaimPasses)

C9_Witness ==
  /\ out.fn = "render"
  /\ filter = "high"
  /\ searchTerm = "PLANNING TEAM"
  /\ Len(out.v.filteredTasks) = 1
  /\ out.v.filteredTasks[1].status = "today"
  /\ Len(tasks) > 1

----------------------------------------------------------------------------
(* prioritizeTasks, over short sequences of a pool of tasks *)

MaxLen == 3         \* length of the sequences sorted

SortTask(id, priority, dueDate, createdAt) ==
  [id |-> id, title |-> id, description |-> Missing, dueDate |-> dueDate,
   status |-> "today", priority |-> priority,
   tags |-> [k |-> "missing", a |-> <<>>],
   createdAt |-> createdAt, completedAt |-> Missing]

TaskA == SortTask("A", "high", addDays(StartNow, 5), Num(StartNow - 3))
TaskB == SortTask("B", "low", addDays(StartNow, 1), Num(StartNow - 1))
TaskC == SortTask("C", "medium", addDays(StartNow, 2), Num(StartNow - 2))
TaskD == SortTask("D", "high", Null, Missing)
TaskE == SortTask("E", "low", Missing, Num(StartNow - 1))
TaskF == SortTask("F", "medium", addDays(StartNow, 2), Num(StartNow - 3))

SortPool == {TaskA, TaskB, TaskC, TaskD, TaskE, TaskF}

InitSort ==
  /\ now = StartNow
  /\ tasks \in UNION {[1..n -> SortPool] : n \in 0..MaxLen}
  /\ sortMode \in SortModes \cup {"bogus"}
  /\ store = JSONstringify(tasks)
  /\ lastRaw = store
  /\ setBy = [i \in 1..Len(tasks) |-> "load"]
  /\ everIds = Ids(tasks)
  /\ lastOp = Op("load", "", "clean")
  /\ filter = "all"
  /\ searchTerm = ""
  /\ ops = 0
  /\ out = NoOutput

\* a call prioritizeTasks(tasks, sortMode)
CallPrioritizeTasks ==
  /\ out.fn = "none"
  /\ out' = [fn |-> "prioritizeTasks", v |-> prioritizeTasks(tasks, sortMode)]
  /\ tasks' = ArgumentAfterSort(tasks, sortMode)
  /\ lastOp' = Op("prioritizeTasks", "", sortMode)
  /\ UNCHANGED <<view, store, now, everIds, setBy, lastRaw, ops>>

NextSort == CallPrioritizeTasks

SpecSort == InitSort /\ [][NextSort]_vars

Count(seq, x) == Cardinality({i \in 1..Len(seq) : seq[i] = x})

IsPermutation(a, b) ==
  /\ Len(a) = Len(b)
  /\ \A i \in 1..Len(a) : Count(a, a[i]) = Count(b, a[i])

ClaimWeight(task) ==
  IF task.priority = "high" THEN 3 ELSE IF task.priority = "medium" THEN 2 ELSE 1

HasDue(task) == task.dueDate.k = "date"

ClaimCreated(task) ==
  IF task.createdAt.k = "number" THEN task.createdAt.n ELSE 0

ClaimOrdered(sorted, mode) ==
  \A i, j \in 1..Len(sorted) :
    i < j =>
      CASE mode = "priority" -> ClaimWeight(sorted[i]) >= ClaimWeight(sorted[j])
        [] mode = "dueDate" ->
             /\ HasDue(sorted[j]) => HasDue(sorted[i])
             /\ (HasDue(sorted[i]) /\ HasDue(sorted[j]))
                  => sorted[i].dueDate.n <= sorted[j].dueDate.n
        [] OTHER -> ClaimCreated(sorted[i]) >= ClaimCreated(sorted[j])

\* C10: prioritizeTasks returns a permutation of its input ordered by the
\* mode's key (priority: weight, non-increasing; dueDate: due instant,
\* non-decreasing, tasks without one last; createdAt and any other mode:
\* createdAt, non-increasing, a missing one as 0); [A, B, C] comes out as
\* [A, C, B] by priority and as [B, C, A] by dueDate.
C10_SortedPermutation ==
  out.fn = "prioritizeTasks" =>
    /\ IsPermutation(out.v, tasks)
    /\ ClaimOrdered(out.v, sortMode)
    /\ (tasks = <<TaskA, TaskB, TaskC>> /\ sortMode = "priority")
         => out.v = <<TaskA, TaskC, TaskB>>
    /\ (tasks = <<TaskA, TaskB, TaskC>> /\ sortMode = "dueDate")
         => out.v = <<TaskB, TaskC, TaskA>>

C10_Witness ==
  /\ out.fn = "prioritizeTasks"
  /\ sortMode = "dueDate"
  /\ tasks = <<TaskD, TaskA, TaskB>>
  /\ out.v = <<TaskB, TaskA, TaskD>>

\* the key two tasks tie on
ClaimKey(task, mode) ==
  CASE mode = "priority" -> ClaimWeight(task)
    [] mode = "dueDate" -> IF HasDue(task) THEN task.dueDate.n ELSE -1
    [] OTHER -> ClaimCreated(task)

TiedWith(seq, key, mode) ==
  LET tied(task) == ClaimKey(task, mode) = key IN SelectSeq(seq, tied)

\* C11: in each of the three modes the tasks that share a sort key come out
\* in the order they went in, and the call leaves its argument as it was.
C11_StableAndArgumentKept ==
  /\ [](out.fn = "prioritizeTasks" /\ sortMode \in SortModes =>
          \A i \in 1..Len(tasks) :
            LET key == ClaimKey(tasks[i], sortMode)
            IN TiedWith(out.v, key, sortMode) = TiedWith(tasks, key, sortMode))
  /\ [][tasks' = tasks]_vars

C11_Witness ==
  /\ out.fn = "prioritizeTasks"
  /\ sortMode = "priority"
  /\ tasks = <<TaskB, TaskF, TaskC>>
  /\ out.v = <<TaskF, TaskC, TaskB>>

----------------------------------------------------------------------------
(* Properties of the board *)

InBucket(grouped, status, task) ==
  \E j \in 1..Len(grouped[status]) : grouped[status][j] = task

BucketSize(grouped, status) ==
  IF status \in DOMAIN grouped THEN Len(grouped[status]) ELSE 0

WithStatus(seq, status) ==
  LET has(task) == task.status = status IN SelectSeq(seq, has)

\* C12: when every filtered task has a known status, groupedTasks has a key
\* exactly for the statuses that occur, each task is in the bucket of its
\* status and in no other, the bucket sizes add up to the number of filtered
\* tasks, and each bucket is in the order of the sort.
C12_GroupedPartitions ==
  (/\ out.fn = "render"
   /\ \A i \in 1..Len(out.v.filteredTasks) :
        out.v.filteredTasks[i].status \in Statuses)
    => LET grouped == out.v.groupedTasks
           filtered == out.v.filteredTasks
       IN /\ DOMAIN grouped = {filtered[i].status : i \in 1..Len(filtered)}
          /\ \A i \in 1..Len(filtered), status \in DOMAIN grouped :
               InBucket(grouped, status, filtered[i])
                 <=> status = filtered[i].status
          /\ BucketSize(grouped, "today") + BucketSize(grouped, "upcoming")
               + BucketSize(grouped, "backlog")
               + BucketSize(grouped, "completed") = Len(filtered)
          /\ \A status \in DOMAIN grouped :
               grouped[status] = WithStatus(out.v.sorted, status)

C12_Witness ==
  /\ out.fn = "render"
  /\ filter = "high"
  /\ DOMAIN out.v.groupedTasks = {"today", "upcoming"}
  /\ Len(out.v.groupedTasks["upcoming"]) = 2

----------------------------------------------------------------------------
(* calculateMetrics over drawn collections *)

MaxWindow == 4      \* active tasks due in or at the edges of the window
MaxOther == 7       \* active tasks due outside the window or without a date
MaxDone == 8        \* completed tasks

MetricTask(id, status, priority, dueDate, completedAt) ==
  [id |-> id, title |-> "Metric", description |-> Missing,
   dueDate |-> dueDate, status |-> status, priority |-> priority,
   tags |-> [k |-> "missing", a |-> <<>>],
   createdAt |-> Num(StartNow - DAY), completedAt |-> completedAt]

\* due dates at the near edge, at the far edge and inside the window of
\* StartNow
WindowDues ==
  <<DateStr(StartNow), DateStr(StartNow + DUE_SOON_DAYS * DAY),
    DateStr(StartOfDay(StartNow) + DAY), DateStr(StartNow + 1)>>

\* no due date, and due dates before and beyond the window of StartNow
OtherDues ==
  <<Null, DateStr(StartNow - 1), Str(""),
    DateStr(StartNow + DUE_SOON_DAYS * DAY + 2), Undefined,
    DateStr(StartOfDay(StartNow)), Missing>>

ActiveStatuses == <<"today", "upcoming", "backlog">>

\* the elements of seq in turn, for i = 1, 2, ...
Cycle(seq, i) == seq[((i - 1) % Len(seq)) + 1]

WindowTask(i) ==
  MetricTask("window-" \o ToString(i), Cycle(ActiveStatuses, i),
             Cycle(PRIORITY_LABELS, i + 1), Cycle(WindowDues, i), Missing)

OtherTask(i) ==
  MetricTask("other-" \o ToString(i), Cycle(ActiveStatuses, i + 1),
             Cycle(PRIORITY_LABELS, i), Cycle(OtherDues, i), Missing)

CompletedTask(i) ==
  MetricTask("completed-" \o ToString(i), "completed",
             Cycle(PRIORITY_LABELS, i), Cycle(WindowDues, i),
             Num(StartNow - i * DAY))

MetricTasks(window, other, done) ==
  [i \in 1..done |-> CompletedTask(i)]
    \o [i \in 1..window |-> WindowTask(i)]
    \o [i \in 1..other |-> OtherTask(i)]

MetricClocks == {StartNow, StartNow + 1}

InitMetrics ==
  /\ now \in MetricClocks
  /\ \E window \in 0..MaxWindow, other \in 0..MaxOther, done \in 0..MaxDone :
       tasks = MetricTasks(window, other, done)
  /\ store = JSONstringify(tasks)
  /\ lastRaw = store
  /\ setBy = [i \in 1..Len(tasks) |-> "load"]
  /\ everIds = Ids(tasks)
  /\ lastOp = Op("load", "", "clean")
  /\ filter = "all"
  /\ searchTerm = ""
  /\ sortMode = "priority"
  /\ ops = 0
  /\ out = NoOutput

NextMetrics == RenderMetrics

SpecMetrics == InitMetrics /\ [][NextMetrics]_vars

ClaimCount(ts, P(_)) == Cardinality({i \in 1..Len(ts) : P(ts[i])})

ClaimIsDone(task) == task.status = "completed"

ClaimIsOpen(task) == task.status # "completed"

\* the least integer not below 0.4 * a
ClaimCeil(a) ==
  CHOOSE k \in 0..a : 5 * k >= 2 * a /\ \A j \in 0..(k - 1) : 5 * j < 2 * a

ClaimMax(a, b) == CHOOSE m \in {a, b} : m >= a /\ m >= b

ClaimTitle(m) ==
  IF 10 * m.completionRate.num >= 8 * m.completionRate.den
  THEN "Celebrate & optimize"
  ELSE IF m.dueSoon >= ClaimMax(2, ClaimCeil(m.activeCount))
  THEN "Tackle upcoming deadlines"
  ELSE IF m.activeCount >= 6 THEN "Streamline the workload"
  ELSE "Build the habit"

\* C13: focusArea is chosen by the first matching rule: completionRate >= 0.8,
\* then dueSoon >= max(2, ceil(0.4 * activeCount)), then activeCount >= 6,
\* else "Build the habit"; with 8 of 10 tasks completed it is "Celebrate &
\* optimize" whatever dueSoon and activeCount are.
C13_FocusAreaByFirstRule ==
  out.fn = "calculateMetrics" =>
    /\ out.v.focusArea.title = ClaimTitle(out.v)
    /\ (Len(tasks) = 10 /\ ClaimCount(tasks, ClaimIsDone) = 8
          => out.v.focusArea.title = "Celebrate & optimize")

C13_Witness ==
  /\ out.fn = "calculateMetrics"
  /\ Len(tasks) = 10
  /\ ClaimCount(tasks, ClaimIsDone) = 8
  /\ out.v.dueSoon = 2
  /\ out.v.focusArea.title = "Celebrate & optimize"

ClaimInWindow(task, clock) ==
  /\ task.dueDate.k = "date"
  /\ clock <= task.dueDate.n
  /\ task.dueDate.n <= clock + 3 * DAY

\* C14: dueSoon is the number of tasks that are not completed and whose due
\* instant lies in [now, now + 3 days]; highPriority is the number of tasks
\* that are not completed and have priority high; neither exceeds activeCount.
C14_DueSoonCountsActiveInWindow ==
  out.fn = "calculateMetrics" =>
    LET soon(task) == ClaimIsOpen(task) /\ ClaimInWindow(task, now)
        high(task) == ClaimIsOpen(task) /\ task.priority = "high"
    IN /\ out.v.dueSoon = ClaimCount(tasks, soon)
       /\ out.v.highPriority = ClaimCount(tasks, high)
       /\ out.v.activeCount = ClaimCount(tasks, ClaimIsOpen)
       /\ out.v.dueSoon <= out.v.activeCount
       /\ out.v.highPriority <= out.v.activeCount

C14_Witness ==
  /\ out.fn = "calculateMetrics"
  /\ out.v.dueSoon = 2
  /\ out.v.highPriority = 1
  /\ out.v.activeCount = 5
  /\ \E i \in 1..Len(tasks) :
       /\ ClaimIsDone(tasks[i])
       /\ ClaimInWindow(tasks[i], now)
       /\ tasks[i].priority = "high"
  /\ \E i \in 1..Len(tasks) :
       ClaimIsOpen(tasks[i]) /\ tasks[i].dueDate.n = now
  /\ \E i \in 1..Len(tasks) :
       ClaimIsOpen(tasks[i]) /\ tasks[i].dueDate.k = "null"

ClaimPercentSum(m) ==
  m.byStatus[1].percentage + m.byStatus[2].percentage
    + m.byStatus[3].percentage + m.byStatus[4].percentage

ClaimKnownStatuses(ts) == \A i \in 1..Len(ts) : ts[i].status \in Statuses

ClaimNear100(sum) == sum >= 100 - 4 /\ sum <= 100 + 4

\* C15 as stated: for every collection whose tasks all have a known status
\* the four byStatus percentages sum to a value within 4 of 100.
C15_PercentagesSumNear100 ==
  (out.fn = "calculateMetrics" /\ ClaimKnownStatuses(tasks))
    => ClaimNear100(ClaimPercentSum(out.v))

\* C15: for every non-empty collection whose tasks all have a known status
\* the four byStatus percentages, in the order today, upcoming, backlog,
\* completed, sum to a value within 4 of 100.
C15_PercentagesSumNear100NonEmpty ==
  (out.fn = "calculateMetrics" /\ ClaimKnownStatuses(tasks) /\ tasks # <<>>)
    => /\ ClaimNear100(ClaimPercentSum(out.v))
       /\ \A i \in 1..4 : out.v.byStatus[i].status = STATUS_LABELS[i]

C15_Witness ==
  /\ out.fn = "calculateMetrics"
  /\ Len(tasks) = 6
  /\ out.v.byStatus[4].count = 3
  /\ ClaimPercentSum(out.v) = 101

\* C16: in every state reached by create, toggle, move and delete operations
\* completionRate is the number of completed tasks over max(1, number of
\* tasks), and lies between 0 and 1.
C16_CompletionRate ==
  LET rate == calculateMetrics(tasks, now).completionRate
  IN /\ rate.num = ClaimCount(tasks, ClaimIsDone)
     /\ rate.den = ClaimMax(1, Len(tasks))
     /\ 0 <= rate.num
     /\ rate.num <= rate.den

C16_Witness ==
  /\ lastOp.op = "toggle"
  /\ Len(tasks) = 5
  /\ calculateMetrics(tasks, now).completionRate = Ratio(2, 5)

\* C17: on the empty collection calculateMetrics reports completionRate 0,
\* streak 0, activeCount, dueSoon and highPriority 0 and four byStatus
\* entries with count 0 and percentage 0, and no quotient has divisor 0.
C17_EmptyCollectionMetrics ==
  tasks = <<>> =>
    LET m == calculateMetrics(tasks, now)
    IN /\ m.completionRate.num = 0
       /\ m.completionRate.den # 0
       /\ m.streak = 0
       /\ m.activeCount = 0
       /\ m.dueSoon = 0
       /\ m.highPriority = 0
       /\ Len(m.byStatus) = 4
       /\ \A i \in 1..4 :
            /\ m.byStatus[i].status = STATUS_LABELS[i]
            /\ m.byStatus[i].count = 0
            /\ m.byStatus[i].percentage = 0

C17_Witness ==
  /\ tasks = <<>>
  /\ lastOp.op = "delete"

----------------------------------------------------------------------------
(* View changes while the clock moves on *)

FrameClocks == {StartNow, StartNow + DAY}

FrameSearchTerms == {"", "team"}

\* the app mounted at one of the clocks on a collection stored at StartNow
InitFrame ==
  /\ now \in FrameClocks
  /\ \E stored \in ViewCollections :
       tasks = LoadTasks(JSONstringify(stored), now).tasks
  /\ store = JSONstringify(tasks)
  /\ lastRaw = store
  /\ setBy = [i \in 1..Len(tasks) |-> "load"]
  /\ everIds = Ids(tasks)
  /\ lastOp = Op("load", "", "clean")
  /\ filter = "all"
  /\ searchTerm = ""
  /\ sortMode = "priority"
  /\ ops = 0
  /\ out = Render(NoOutput, Deps(tasks, filter, searchTerm, sortMode),
                  tasks, filter, searchTerm, sortMode, now)

NextFrame ==
  \/ \E value \in Filters : setFilter(value)
  \/ \E value \in FrameSearchTerms : setSearchTerm(value)
  \/ \E value \in SortModes : setSortMode(value)
  \/ Tick(DAY)

SpecFrame == InitFrame /\ [][NextFrame]_vars

ClaimViewStep ==
  lastOp'.op \in {"setFilter", "setSearchTerm", "setSortMode"}

\* a view change leaves the collection, the stored collection, the metrics,
\* the focus trio and the recent completions as they were
ClaimViewFrame ==
  ClaimViewStep =>
    /\ tasks' = tasks
    /\ store' = store
    /\ out'.v.metrics = out.v.metrics
    /\ out'.v.focusTasks = out.v.focusTasks
    /\ out'.v.completedRecently = out.v.completedRecently

\* the clock at which this specification mounted the app: only Tick(DAY)
\* moves the clock, and it counts in ops
ClaimMountClock == now - ops * DAY

\* C18 as stated: a view change leaves the collection, the metrics, the
\* focus trio and the recent completions unchanged, and an app state with
\* the same collection (here: the app mounted on it at any clock of the
\* specification, whatever its view parameters) has equal metrics.
C18_ViewFrameAndEqualMetrics ==
  /\ [][ClaimViewFrame]_vars
  /\ [](\A clock \in FrameClocks : out.v.metrics = calculateMetrics(tasks, clock))

\* C18: a view change leaves the collection, the metrics, the focus trio and
\* the recent completions unchanged; the metrics shown are those of the
\* collection at the instant they were computed, whatever the view
\* parameters, and the focus trio and the recent completions are those of
\* the collection.
C18_ViewFrameAndMetricsOfMount ==
  /\ [][ClaimViewFrame]_vars
  /\ [](/\ out.v.metrics = calculateMetrics(tasks, ClaimMountClock)
        /\ out.v.focusTasks = focusTasks(tasks)
        /\ out.v.completedRecently = completedRecently(tasks))

C18_Witness ==
  /\ lastOp.op = "setFilter"
  /\ filter = "high"
  /\ sortMode = "dueDate"
  /\ searchTerm = "team"
  /\ ops >= 1
  /\ out.v.metrics # calculateMetrics(tasks, now)
  /\ Len(out.v.focusTasks) = 3
  /\ Len(out.v.completedRecently) >= 1

----------------------------------------------------------------------------
(* Frame of the handlers *)

\* C19: a toggle or a move, of the task or of another one, leaves every
\* task in place with the id and the createdAt it had; a create gives the
\* new task the current instant as createdAt and keeps every other task as
\* it was; of the handlers only the delete removes a task, and the tasks it
\* keeps are unchanged.
C19_CreatedAtAndIdKept ==
  [][/\ lastOp'.op \in {"toggle", "move"} =>
          /\ SameSize
          /\ \A i \in 1..Len(tasks) :
               /\ tasks'[i].id = tasks[i].id
               /\ tasks'[i].createdAt = tasks[i].createdAt
     /\ lastOp'.op = "create" =>
          /\ Len(tasks') = Len(tasks) + 1
          /\ tasks'[1].createdAt = Num(now)
          /\ tasks'[1].id = lastOp'.id
          /\ \A i \in 1..Len(tasks) : tasks'[i + 1] = tasks[i]
     /\ lastOp'.op = "delete" =>
          /\ \A i \in 1..Len(tasks) :
               tasks[i].id # lastOp'.id
                 => \E j \in 1..Len(tasks') : tasks'[j] = tasks[i]
          /\ \A j \in 1..Len(tasks') :
               \E i \in 1..Len(tasks) : tasks[i] = tasks'[j]
     /\ lastOp'.op \in {"tick", "storage"} => tasks' = tasks]_vars

C19_Witness ==
  /\ lastOp.op = "move"
  /\ ops = 3
  /\ Len(tasks) = 6
  /\ tasks[1].id = lastOp.id
  /\ tasks[1].id = newId(StartNow, "k3x9")
  /\ tasks[1].createdAt = Num(StartNow)
  /\ tasks[1].status = "backlog"
  /\ Present(tasks[1].completedAt)

ClaimSameButStatusAndStamp(before, after) ==
  [after EXCEPT !.status = before.status, !.completedAt = before.completedAt]
    = before

\* C20: a toggle of a completed task sets its status to today and removes
\* completedAt; a toggle of any other task sets its status to completed and
\* completedAt to the current instant; nothing else of the task changes, its
\* status afterwards is today or completed, a second toggle right after the
\* toggle of a non-completed task leaves it in today, and every task with
\* another id is unchanged.
C20_ToggleSemantics ==
  [][lastOp'.op = "toggle" =>
       /\ SameSize
       /\ \A i \in 1..Len(tasks) :
            IF tasks[i].id # lastOp'.id THEN tasks'[i] = tasks[i]
            ELSE /\ tasks[i].status = "completed" =>
                      /\ tasks'[i].status = "today"
                      /\ ~Present(tasks'[i].completedAt)
                 /\ tasks[i].status # "completed" =>
                      /\ tasks'[i].status = "completed"
                      /\ tasks'[i].completedAt = Num(now)
                 /\ tasks'[i].status \in {"today", "completed"}
                 /\ ClaimSameButStatusAndStamp(tasks[i], tasks'[i])
                 /\ (lastOp.op = "toggle" /\ lastOp.id = lastOp'.id
                       /\ tasks[i].status = "completed")
                      => tasks'[i].status = "today"]_vars

C20_Witness ==
  /\ lastOp.op = "toggle"
  /\ lastOp.id = "pipeline"
  /\ ops = 2
  /\ \E i \in 1..Len(tasks) :
       /\ tasks[i].id = "pipeline"
       /\ tasks[i].status = "today"
       /\ tasks[i].completedAt = Undefined
       /\ setBy[i] = "toggle"
  /\ \A i \in 1..Len(tasks) :
       tasks[i].id # "pipeline" => tasks[i] = DEFAULT_TASKS(StartNow)[i]

----------------------------------------------------------------------------
(* Deletion *)

\* how many of the first i tasks have another id than taskId
ClaimRank(ts, taskId, i) ==
  Cardinality({k \in 1..i : ts[k].id # taskId})

ClaimIds(ts) == {ts[i].id : i \in 1..Len(ts)}

\* C21: a delete removes every task with the given id and nothing else: the
\* tasks with another id stay, with their fields, in their order, and a
\* delete of an id no task has changes nothing; a toggle, a move or a delete
\* brings no id into the collection that was not in it.
C21_DeleteRemovesOnlyThatId ==
  [][/\ lastOp'.op = "delete" =>
          /\ Len(tasks') = ClaimRank(tasks, lastOp'.id, Len(tasks))
          /\ \A i \in 1..Len(tasks) :
               tasks[i].id # lastOp'.id
                 => tasks'[ClaimRank(tasks, lastOp'.id, i)] = tasks[i]
          /\ lastOp'.id \notin ClaimIds(tasks')
          /\ lastOp'.id \notin ClaimIds(tasks) => tasks' = tasks
     /\ lastOp'.op \in {"toggle", "move", "delete"} =>
          /\ ClaimIds(tasks') \subseteq ClaimIds(tasks)
          /\ Len(tasks') <= Len(tasks)]_vars

C21_Witness ==
  /\ lastOp.op = "delete"
  /\ lastOp.id = "retro"
  /\ ops = 1
  /\ Len(tasks) = 4
  /\ tasks[1] = DEFAULT_TASKS(StartNow)[1]
  /\ \A i \in 2..4 : tasks[i] = DEFAULT_TASKS(StartNow)[i + 1]

====
